---- MODULE Spec2Model ----
(***************************************************************************)
(* Sheet lifecycle and reconciliation engine of the staging/loading        *)
(* application: StagingSheet (handleItemChange, handleAddRow, validateForm,*)
(* handleSave), LoadingSheet (generateLoadingItems, handleLoadingCellChange,*)
(* handleCellBlur, handleLooseChange, buildSheetData, handleSaveProgress,  *)
(* handleSubmit), the AdminDashboard delete handlers and the AppContext   *)
(* store (addSheet, updateSheet, deleteSheet, addComment, acquireLock,     *)
(* releaseLock, fetchData).                                                *)
(*                                                                         *)
(* Every browser session (client) holds its own React state: the sheets    *)
(* list, the lock set, the audit log and the open form.  The sessions share*)
(* the Supabase table `sheets`, written by full-document upsert and read   *)
(* only when a session mounts (fetchData).  A handler runs to completion:  *)
(* the state updates it queues and the upserts it issues are applied in    *)
(* the order the handler issues them, in the same step.                    *)
(***************************************************************************)
EXTENDS Integers, Sequences, FiniteSets, TLC

\* ------------------------------------------------------------------ bounds
MaxHist == 3        \* history entries kept on a sheet before writes stop
EmptyRows == 1      \* rows of EMPTY_STAGING_ITEMS (15 in the source)
TargetRows == 2     \* rows the staging form is padded to (20 in the source)
MaxRows == 3        \* rows after which Add Row is no longer pressed
MaxCalls == 2       \* successive runs of the loading-matrix generation
MaxComments == 2    \* comments on a sheet after which addComment stops
MaxSheets == 1      \* sheets in a session's list after which it creates none

\* ------------------------------------------------------ program constants
Cols == 10          \* slots per pallet-group row of the loading grid
PoolSize == 5       \* additional-item rows created at lock
CountSlots == 10    \* counts per additional-item row

Clients == {"c1", "c2"}

\* Date.now() values at which the model lets a sheet be created: one sheet,
\* followed through its lifecycle.
CreateTimes == {1}

DRAFT == "DRAFT"
LOCKED == "LOCKED"
COMPLETED == "COMPLETED"

\* ------------------------------------------------------------ conversions
\* Text of the <input> elements the model enters.
HeaderVals == {"", " ", "D"}
SkuNames == {"", " ", "A"}
NumVals == {"", "3"}
CellVals == {"", "1", "2"}
LooseVals == {"", "1"}

\* String.prototype.trim on the header and SKU texts.
Trim(s) == IF s = " " THEN "" ELSE s

\* Number(value) / parseInt(val) on the decimal texts entered.
Number(s) ==
    CASE s = "0" -> 0
      [] s = "1" -> 1
      [] s = "2" -> 2
      [] s = "3" -> 3
      [] s = "-1" -> -1

parseInt(s) == Number(s)

\* A numeric staging field of the form holds '' or a number.
Blank == <<>>

\* `x === '' ? 0 : Number(x)` of handleItemChange and handleSave.
OrZero(x) == IF x = Blank THEN 0 ELSE x[1]

\* `value={cell?.value || ''}`: the text a grid or loose input shows.
Display(n) ==
    CASE n = 0 -> ""
      [] n = 1 -> "1"
      [] n = 2 -> "2"
      [] n = 3 -> "3"
      [] n = -1 -> "-1"

\* -------------------------------------------------------------- sequences
RECURSIVE SumSeq(_)
SumSeq(s) == IF s = <<>> THEN 0 ELSE Head(s) + SumSeq(Tail(s))

MapSeq(s, Op(_)) == [i \in 1..Len(s) |-> Op(s[i])]

Range(s) == {s[i] : i \in 1..Len(s)}

\* Array.prototype.find / findIndex: the first match (0 when there is none).
FindIndex(s, Test(_)) ==
    IF \E i \in 1..Len(s) : Test(s[i])
    THEN CHOOSE i \in 1..Len(s) : Test(s[i]) /\ \A j \in 1..(i - 1) : ~Test(s[j])
    ELSE 0

\* ------------------------------------------------------------------ types
EmptyStagingItem(n) ==
    [srNo |-> n, skuName |-> "", casesPerPlt |-> 0, fullPlt |-> 0,
     loose |-> 0, ttlCases |-> 0]

EMPTY_STAGING_ITEMS == [i \in 1..EmptyRows |-> EmptyStagingItem(i)]

NoSheet ==
    [id |-> 0, status |-> "NONE", destination |-> "", loadingDockNo |-> "",
     stagingItems |-> <<>>, loadingItems |-> <<>>, additionalItems |-> <<>>,
     lockedBy |-> "", lockedAt |-> 0, completedBy |-> "", completedAt |-> 0,
     loadingEndTime |-> "", comments |-> <<>>, history |-> <<>>]

NoForm == [destination |-> "", loadingDockNo |-> "", items |-> <<>>]

\* No grid input has uncommitted text.
NoEntry ==
    [skuSrNo |-> 0, row |-> 0, col |-> 0, value |-> 0, total |-> 0,
     balance |-> 0]

\* ------------------------------------------------------------------ state
VARIABLES
    now,              \* Date.now(), the source of sheet ids
    db,               \* rows of the Supabase table `sheets`
    sheets,           \* per client: the `sheets` React state
    activeLocks,      \* per client: the `activeLocks` React state
    auditLogs,        \* per client: the `auditLogs` React state
    currentPage,      \* per client: App `currentPage`
    selectedSheetId,  \* per client: App `selectedSheetId` (0 = null)
    form,             \* per client: StagingSheet destination/loadingDockNo/items
    currentSheet,     \* per client: LoadingSheet `currentSheet`
    entered,          \* per client: the grid input being typed in, with the
                      \* cell value and item total/balance when typing began
    loadingForm,      \* per client: LoadingSheet endTime and remarks inputs
    outcome           \* per client: what the last event showed the user

vars == <<now, db, sheets, activeLocks, auditLogs, currentPage,
          selectedSheetId, form, currentSheet, entered, loadingForm, outcome>>

\* currentUser?.username of a session: every session is logged in as a
\* user of its own.
currentUser(c) == c

\* App: activeSheet = sheets.find(s => s.id === selectedSheetId)
FindSheet(list, id) ==
    LET i == FindIndex(list, LAMBDA s : s.id = id)
    IN IF i = 0 THEN NoSheet ELSE list[i]

activeSheet(c) == FindSheet(sheets[c], selectedSheetId[c])

\* ------------------------------------------------------- AppContext store
\* The store as a handler sees and leaves it: the client's sheets list, the
\* shared table and the client's audit log.
Store(c) == [local |-> sheets[c], table |-> db, logs |-> auditLogs[c]]

\* supabase.from('sheets').upsert({id, data}): replace the row of that id.
Upsert(table, sheet) == {r \in table : r.id # sheet.id} \cup {sheet}

\* `STATUS_CHANGE_TO_${sheet.status}`
StatusChangeTo(status) ==
    CASE status = DRAFT -> "STATUS_CHANGE_TO_DRAFT"
      [] status = LOCKED -> "STATUS_CHANGE_TO_LOCKED"
      [] status = COMPLETED -> "STATUS_CHANGE_TO_COMPLETED"

\* addLog(action, details): prepended to auditLogs. The details text is
\* kept as the sheet id and the reason it quotes ("" when it quotes none).
addLog(logs, action, id, reason) ==
    <<[action |-> action, sheet |-> id, reason |-> reason]>> \o logs

\* addSheet: CREATED is appended to the history handed in, the sheet is put
\* in front of the list and upserted, SHEET_CREATE is logged.
addSheet(st, sheet) ==
    LET newSheet == [sheet EXCEPT !.history = sheet.history \o <<"CREATED">>]
    IN [local |-> <<newSheet>> \o st.local,
        table |-> Upsert(st.table, newSheet),
        logs |-> addLog(st.logs, "SHEET_CREATE", sheet.id, "")]

\* The sheet updateSheet stores in place of the list element s.
UpdatedSheet(s, sheet) ==
    LET action == IF s.status # sheet.status
                  THEN StatusChangeTo(sheet.status) ELSE "UPDATED"
    IN [sheet EXCEPT !.history = <<action>> \o sheet.history]

\* updateSheet: every list element with the id is replaced and upserted;
\* a list without the id is left alone and nothing is written.
updateSheet(st, sheet) ==
    LET hits == {i \in 1..Len(st.local) : st.local[i].id = sheet.id}
        last == CHOOSE i \in hits : \A j \in hits : j <= i
    IN [local |-> [i \in 1..Len(st.local) |->
                      IF i \in hits THEN UpdatedSheet(st.local[i], sheet)
                      ELSE st.local[i]],
        table |-> IF hits = {} THEN st.table
                  ELSE Upsert(st.table, UpdatedSheet(st.local[last], sheet)),
        logs |-> st.logs]

\* deleteSheet: the sheet leaves the list and the table, SHEET_DELETE is
\* logged with the reason handed in; the reason is not looked at.
deleteSheet(st, id, reason) ==
    [local |-> SelectSeq(st.local, LAMBDA s : s.id # id),
     table |-> {r \in st.table : r.id # id},
     logs |-> addLog(st.logs, "SHEET_DELETE", id, reason)]

\* The sheet addComment stores in place of the list element s.
CommentedSheet(s, author, text) ==
    [s EXCEPT !.comments = <<[author |-> author, text |-> text]>> \o @]

\* addComment: the comment is put in front of the comments of every list
\* element with the id, and that element is upserted.
addComment(st, sheetId, author, text) ==
    LET hits == {i \in 1..Len(st.local) : st.local[i].id = sheetId}
        last == CHOOSE i \in hits : \A j \in hits : j <= i
    IN [local |-> [i \in 1..Len(st.local) |->
                      IF i \in hits
                      THEN CommentedSheet(st.local[i], author, text)
                      ELSE st.local[i]],
        table |-> IF hits = {} THEN st.table
                  ELSE Upsert(st.table,
                              CommentedSheet(st.local[last], author, text)),
        logs |-> st.logs]

\* acquireLock reads the activeLocks of the render the handler closes over.
acquireLock(locks, sheetId) == sheetId \notin locks

\* releaseLock that leaves the id in the set.
releaseLockKept(locks, sheetId) == locks

\* releaseLock: the id is removed from activeLocks, whether in it or not.
releaseLock(locks, sheetId) == locks \ {sheetId}

\* ---------------------------------------------------------- StagingSheet
\* isLocked of the render: the sheet handed in is LOCKED or COMPLETED.
isLocked(existingSheet) == existingSheet.status \in {LOCKED, COMPLETED}

\* useState initialiser of `items`: pad to targetRows, show 0 as '' unless
\* the sheet is locked.
InitialItems(existingSheet) ==
    LET initial == IF existingSheet = NoSheet THEN EMPTY_STAGING_ITEMS
                   ELSE existingSheet.stagingItems
        rows == IF Len(initial) < TargetRows
                THEN initial \o [i \in 1..(TargetRows - Len(initial)) |->
                                    EmptyStagingItem(Len(initial) + i)]
                ELSE initial
        Shown(v) == IF v = 0 /\ ~isLocked(existingSheet) THEN Blank ELSE <<v>>
    IN [i \in 1..Len(rows) |->
           [rows[i] EXCEPT !.casesPerPlt = Shown(@), !.fullPlt = Shown(@),
                           !.loose = Shown(@)]]

\* The form a StagingSheet mounts with.
InitialForm(existingSheet) ==
    [destination |-> existingSheet.destination,
     loadingDockNo |-> existingSheet.loadingDockNo,
     items |-> InitialItems(existingSheet)]

\* handleItemChange: the edited row with its ttlCases recomputed.
ItemChanged(item, field, value) ==
    LET typedValue == IF field \in {"casesPerPlt", "fullPlt", "loose"}
                      THEN (IF value = "" THEN Blank ELSE <<Number(value)>>)
                      ELSE value
        it == [item EXCEPT ![field] = typedValue]
    IN [it EXCEPT !.ttlCases =
           OrZero(it.casesPerPlt) * OrZero(it.fullPlt) + OrZero(it.loose)]

\* validateForm without its Loading Dock No rule.
validateFormNoDock(destination, loadingDockNo, itemsToValidate, strict) ==
    LET e1 == IF strict /\ Trim(destination) = ""
              THEN <<"Destination is required">> ELSE <<>>
        hasAtLeastOneItem ==
            \E i \in 1..Len(itemsToValidate) :
                Trim(itemsToValidate[i].skuName) # ""
        e3 == IF strict /\ ~hasAtLeastOneItem /\ Len(e1) = 0
              THEN <<"At least one valid item row (SKU Name) is required to lock.">>
              ELSE <<>>
    IN e1 \o e3

\* validateForm
validateForm(destination, loadingDockNo, itemsToValidate, strict) ==
    LET e1 == IF strict /\ Trim(destination) = ""
              THEN <<"Destination is required">> ELSE <<>>
        e2 == IF strict /\ Trim(loadingDockNo) = ""
              THEN <<"Loading Dock No is required">> ELSE <<>>
        hasAtLeastOneItem ==
            \E i \in 1..Len(itemsToValidate) :
                Trim(itemsToValidate[i].skuName) # ""
        e3 == IF strict /\ ~hasAtLeastOneItem /\ Len(e1 \o e2) = 0
              THEN <<"At least one valid item row (SKU Name) is required to lock.">>
              ELSE <<>>
    IN e1 \o e2 \o e3

\* finalItems with the loose cases left out of ttlCases.
FinalItemNoLoose(item) ==
    LET c == OrZero(item.casesPerPlt)
        f == OrZero(item.fullPlt)
        l == OrZero(item.loose)
    IN [item EXCEPT !.casesPerPlt = c, !.fullPlt = f, !.loose = l,
                    !.ttlCases = c * f]

\* handleSave: finalItems, every row with numbers and ttlCases recomputed.
FinalItem(item) ==
    LET c == OrZero(item.casesPerPlt)
        f == OrZero(item.fullPlt)
        l == OrZero(item.loose)
    IN [item EXCEPT !.casesPerPlt = c, !.fullPlt = f, !.loose = l,
                    !.ttlCases = (c * f) + l]

finalItems(items) == MapSeq(items, FinalItem)

\* handleSave: the loading matrix generated at lock.
\* The existing entry kept, its balance lowered by its total once more.
LockLoadingItemRebalanced(sItem, existing) ==
    LET k == FindIndex(existing, LAMBDA li : li.skuSrNo = sItem.srNo)
    IN IF k # 0
       THEN [existing[k] EXCEPT !.balance = @ - existing[k].total]
       ELSE [skuSrNo |-> sItem.srNo, cells |-> <<>>, looseInput |-> 0,
             total |-> 0, balance |-> sItem.ttlCases]

LockLoadingItem(sItem, existing) ==
    LET k == FindIndex(existing, LAMBDA li : li.skuSrNo = sItem.srNo)
    IN IF k # 0
       THEN [existing[k] EXCEPT !.balance = sItem.ttlCases - existing[k].total]
       ELSE [skuSrNo |-> sItem.srNo, cells |-> <<>>, looseInput |-> 0,
             total |-> 0, balance |-> sItem.ttlCases]

\* The lock-time filter without its ttlCases > 0 condition.
LockLoadingItemsAnyTotal(fItems, existing) ==
    LET validStagingItems ==
            SelectSeq(fItems, LAMBDA item : item.skuName # "")
    IN [i \in 1..Len(validStagingItems) |->
           LockLoadingItem(validStagingItems[i], existing)]

LockLoadingItems(fItems, existing) ==
    LET validStagingItems ==
            SelectSeq(fItems, LAMBDA item : item.skuName # "" /\ item.ttlCases > 0)
    IN [i \in 1..Len(validStagingItems) |->
           LockLoadingItem(validStagingItems[i], existing)]

\* Array.from({length: 5}, ...): the pool of empty additional items.
AdditionalPool ==
    [i \in 1..PoolSize |->
        [id |-> i, skuName |-> "", counts |-> [k \in 1..CountSlots |-> 0],
         total |-> 0]]

\* handleSave: the sheetData handed to addSheet / updateSheet.
StagingSheetData(existingSheet, f, lock, sheetId, username, time) ==
    LET fItems == finalItems(f.items)
    IN [id |-> sheetId,
        status |-> IF lock THEN LOCKED ELSE DRAFT,
        destination |-> f.destination,
        loadingDockNo |-> f.loadingDockNo,
        stagingItems |-> fItems,
        loadingItems |-> IF lock
                         THEN LockLoadingItems(fItems, existingSheet.loadingItems)
                         ELSE existingSheet.loadingItems,
        additionalItems |-> IF lock /\ Len(existingSheet.additionalItems) = 0
                            THEN AdditionalPool
                            ELSE existingSheet.additionalItems,
        lockedBy |-> IF lock THEN username ELSE existingSheet.lockedBy,
        lockedAt |-> IF lock THEN time ELSE existingSheet.lockedAt,
        completedBy |-> existingSheet.completedBy,
        completedAt |-> existingSheet.completedAt,
        loadingEndTime |-> existingSheet.loadingEndTime,
        comments |-> existingSheet.comments,
        history |-> existingSheet.history]

\* ---------------------------------------------------------- LoadingSheet
\* generateLoadingItems: fresh entries for the staged SKUs of the sheet prop.
generatedLoadingItems(sheet) ==
    LET valid == SelectSeq(sheet.stagingItems,
                           LAMBDA item : item.skuName # "" /\ item.ttlCases > 0)
    IN [i \in 1..Len(valid) |->
           [skuSrNo |-> valid[i].srNo, cells |-> <<>>, looseInput |-> 0,
            total |-> 0, balance |-> valid[i].ttlCases]]

\* generateLoadingItems: the updatedSheet it stores and hands to updateSheet.
generatedSheet(sheet, cur) ==
    [cur EXCEPT !.loadingItems = generatedLoadingItems(sheet),
                !.additionalItems = IF Len(sheet.additionalItems) > 0
                                    THEN sheet.additionalItems
                                    ELSE AdditionalPool]

\* Mount effect: staged quantities exist but loading or additional items
\* are missing.
needsGeneration(cur) ==
    /\ \E i \in 1..Len(cur.stagingItems) : cur.stagingItems[i].ttlCases > 0
    /\ (Len(cur.loadingItems) = 0 \/ Len(cur.additionalItems) = 0)

\* sheet.stagingItems.find(s => s.srNo === skuSrNo)
FindStaging(sheet, skuSrNo) ==
    LET i == FindIndex(sheet.stagingItems, LAMBDA it : it.srNo = skuSrNo)
    IN IF i = 0 THEN EmptyStagingItem(0) ELSE sheet.stagingItems[i]

hasStaging(sheet, skuSrNo) ==
    \E i \in 1..Len(sheet.stagingItems) : sheet.stagingItems[i].srNo = skuSrNo

cellValues(cells) == [i \in 1..Len(cells) |-> cells[i].value]

\* handleLoadingCellChange that leaves a cell that exists as it is.
CellChangedKeepsOld(li, sheet, row, col, value) ==
    LET existingCellIndex ==
            FindIndex(li.cells, LAMBDA c : c.row = row /\ c.col = col)
        cell == [row |-> row, col |-> col, value |-> value]
        newCells == IF existingCellIndex > 0
                    THEN li.cells
                    ELSE Append(li.cells, cell)
        total == SumSeq(cellValues(newCells)) + li.looseInput
        totalCases == IF hasStaging(sheet, li.skuSrNo)
                      THEN FindStaging(sheet, li.skuSrNo).ttlCases ELSE 0
    IN [li EXCEPT !.cells = newCells, !.total = total,
                  !.balance = totalCases - total]

\* handleLoadingCellChange that pushes the cell, found or not.
CellChangedAppends(li, sheet, row, col, value) ==
    LET cell == [row |-> row, col |-> col, value |-> value]
        newCells == Append(li.cells, cell)
        total == SumSeq(cellValues(newCells)) + li.looseInput
        totalCases == IF hasStaging(sheet, li.skuSrNo)
                      THEN FindStaging(sheet, li.skuSrNo).ttlCases ELSE 0
    IN [li EXCEPT !.cells = newCells, !.total = total,
                  !.balance = totalCases - total]

\* handleLoadingCellChange: the entry of skuSrNo with the cell upserted and
\* total/balance recomputed (stagingItem?.ttlCases || 0).
CellChanged(li, sheet, row, col, value) ==
    LET existingCellIndex ==
            FindIndex(li.cells, LAMBDA c : c.row = row /\ c.col = col)
        cell == [row |-> row, col |-> col, value |-> value]
        newCells == IF existingCellIndex > 0
                    THEN [li.cells EXCEPT ![existingCellIndex] = cell]
                    ELSE Append(li.cells, cell)
        total == SumSeq(cellValues(newCells)) + li.looseInput
        totalCases == IF hasStaging(sheet, li.skuSrNo)
                      THEN FindStaging(sheet, li.skuSrNo).ttlCases ELSE 0
    IN [li EXCEPT !.cells = newCells, !.total = total,
                  !.balance = totalCases - total]

LoadingCellChanged(items, sheet, skuSrNo, row, col, value) ==
    [i \in 1..Len(items) |->
        IF items[i].skuSrNo # skuSrNo THEN items[i]
        ELSE CellChanged(items[i], sheet, row, col, value)]

\* handleLooseChange with the cells left out of the balance.
LooseChangedNoCells(li, sheet, value) ==
    LET total == SumSeq(cellValues(li.cells)) + value
        totalCases == IF hasStaging(sheet, li.skuSrNo)
                      THEN FindStaging(sheet, li.skuSrNo).ttlCases ELSE 0
    IN [li EXCEPT !.looseInput = value, !.total = total,
                  !.balance = totalCases - value]

\* handleLooseChange
LooseChanged(li, sheet, value) ==
    LET total == SumSeq(cellValues(li.cells)) + value
        totalCases == IF hasStaging(sheet, li.skuSrNo)
                      THEN FindStaging(sheet, li.skuSrNo).ttlCases ELSE 0
    IN [li EXCEPT !.looseInput = value, !.total = total,
                  !.balance = totalCases - total]

LoadingLooseChanged(items, sheet, skuSrNo, value) ==
    [i \in 1..Len(items) |->
        IF items[i].skuSrNo # skuSrNo THEN items[i]
        ELSE LooseChanged(items[i], sheet, value)]

\* The value the grid shows at (row, col) of an entry: cell?.value, 0 if none.
CellValue(li, row, col) ==
    LET k == FindIndex(li.cells, LAMBDA c : c.row = row /\ c.col = col)
    IN IF k = 0 THEN 0 ELSE li.cells[k].value

\* Grid render with an input in every slot of the row, isValid or not.
cellRenderedAnySlot(cur, sheet, li, row, col) ==
    /\ cur.status # COMPLETED
    /\ hasStaging(sheet, li.skuSrNo)
    /\ FindStaging(sheet, li.skuSrNo).skuName # ""
    /\ col \in 0..(Cols - 1)
    /\ row >= 0

\* Grid render: the input at (row, col) of entry li exists and is enabled.
cellRendered(cur, sheet, li, row, col) ==
    /\ cur.status # COMPLETED
    /\ hasStaging(sheet, li.skuSrNo)
    /\ FindStaging(sheet, li.skuSrNo).skuName # ""
    /\ col \in 0..(Cols - 1)
    /\ row >= 0
    /\ row * Cols + col + 1 <= FindStaging(sheet, li.skuSrNo).fullPlt

\* new Date().toLocaleTimeString('en-US', {hour12: false}) at clock value
\* time: a text no user input of the model equals.
toLocaleTimeString(time) ==
    CASE time = 1 -> "00:00:01"
      [] time = 2 -> "00:00:02"
      [] OTHER -> "00:00:03"

\* The LoadingSheet header inputs: useState initial values and the [sheet]
\* effect, endTime from loadingEndTime and remarks from the first comment.
NoLoadingForm == [endTime |-> "", remarks |-> ""]

InitialLoadingForm(sheet) ==
    [endTime |-> sheet.loadingEndTime,
     remarks |-> IF Len(sheet.comments) > 0 THEN sheet.comments[1].text
                 ELSE ""]

\* buildSheetData: the SheetData of the loading form, given the loading
\* items buildSheetData settled on.
buildSheetData(cur, sheet, header, status, finalLoadingItems, username, time) ==
    [cur EXCEPT !.status = status,
                !.stagingItems = sheet.stagingItems,
                !.loadingItems = finalLoadingItems,
                !.additionalItems = IF Len(cur.additionalItems) > 0
                                    THEN cur.additionalItems
                                    ELSE sheet.additionalItems,
                !.loadingDockNo = sheet.loadingDockNo,
                !.loadingEndTime = IF status = COMPLETED
                                   THEN toLocaleTimeString(time)
                                   ELSE header.endTime,
                !.comments = IF header.remarks # ""
                             THEN <<[author |-> username,
                                     text |-> header.remarks]>>
                             ELSE <<>>,
                !.completedBy = IF status = COMPLETED THEN username ELSE "",
                !.completedAt = IF status = COMPLETED THEN time ELSE 0]

\* handleSaveProgress / handleSubmit on the store: buildSheetData first runs
\* generateLoadingItems (which calls updateSheet) when the form has no
\* loading items, then the handler calls updateSheet with the built data.
SavedFromLoading(st, cur, sheet, header, status, username, time) ==
    IF Len(cur.loadingItems) > 0
    THEN updateSheet(st, buildSheetData(cur, sheet, header, status,
                                        cur.loadingItems, username, time))
    ELSE updateSheet(updateSheet(st, generatedSheet(sheet, cur)),
                     buildSheetData(cur, sheet, header, status,
                                    generatedLoadingItems(sheet),
                                    username, time))

\* ---------------------------------------------------------------- actions
Shown(kind) == [kind |-> kind, errors |-> <<>>]

Init ==
    /\ now = 1
    /\ db = {}
    /\ sheets = [c \in Clients |-> <<>>]
    /\ activeLocks = [c \in Clients |-> {}]
    /\ auditLogs = [c \in Clients |-> <<>>]
    /\ currentPage = [c \in Clients |-> "list"]
    /\ selectedSheetId = [c \in Clients |-> 0]
    /\ form = [c \in Clients |-> NoForm]
    /\ currentSheet = [c \in Clients |-> NoSheet]
    /\ entered = [c \in Clients |-> NoEntry]
    /\ loadingForm = [c \in Clients |-> NoLoadingForm]
    /\ outcome = [c \in Clients |-> Shown("none")]

\* AppProvider mount (page load): React state starts from MOCK_SHEETS = []
\* and fetchData replaces the list by the table rows when there are any.
\* select('*') has no ORDER BY: the rows arrive in any order.
FetchData(c) ==
    /\ \E order \in [1..Cardinality(db) -> db] :
          /\ \A i, j \in 1..Cardinality(db) : i # j => order[i] # order[j]
          /\ sheets' = [sheets EXCEPT ![c] = order]
    /\ activeLocks' = [activeLocks EXCEPT ![c] = {}]
    /\ auditLogs' = [auditLogs EXCEPT ![c] = <<>>]
    /\ currentPage' = [currentPage EXCEPT ![c] = "list"]
    /\ selectedSheetId' = [selectedSheetId EXCEPT ![c] = 0]
    /\ form' = [form EXCEPT ![c] = NoForm]
    /\ currentSheet' = [currentSheet EXCEPT ![c] = NoSheet]
    /\ entered' = [entered EXCEPT ![c] = NoEntry]
    /\ loadingForm' = [loadingForm EXCEPT ![c] = NoLoadingForm]
    /\ outcome' = [outcome EXCEPT ![c] = Shown("none")]
    /\ UNCHANGED <<now, db>>

\* App.handleCreateSheet: the staging editor opens on a new sheet.
handleCreateSheet(c) ==
    /\ currentPage[c] = "list"
    /\ now \in CreateTimes
    /\ currentPage' = [currentPage EXCEPT ![c] = "staging-editor"]
    /\ selectedSheetId' = [selectedSheetId EXCEPT ![c] = 0]
    /\ form' = [form EXCEPT ![c] = InitialForm(NoSheet)]
    /\ outcome' = [outcome EXCEPT ![c] = Shown("none")]
    /\ UNCHANGED <<now, db, sheets, activeLocks, auditLogs, currentSheet,
                   entered, loadingForm>>

\* App.handleViewSheet for a sheet that opens in the staging editor: any
\* row of the staging list, a DRAFT row of a dashboard.
handleViewSheetStaging(c, id, source) ==
    /\ currentPage[c] = "list"
    /\ FindSheet(sheets[c], id) # NoSheet
    /\ source = "staging" \/ FindSheet(sheets[c], id).status = DRAFT
    /\ currentPage' = [currentPage EXCEPT ![c] = "staging-editor"]
    /\ selectedSheetId' = [selectedSheetId EXCEPT ![c] = id]
    /\ form' = [form EXCEPT ![c] = InitialForm(FindSheet(sheets[c], id))]
    /\ outcome' = [outcome EXCEPT ![c] = Shown("none")]
    /\ UNCHANGED <<now, db, sheets, activeLocks, auditLogs, currentSheet,
                   entered, loadingForm>>

\* App.handleViewSheet for a sheet that opens in the loading editor (status
\* not DRAFT, source not the staging list), with the LoadingSheet mount
\* effect: generateLoadingItems when needsGeneration, then the [sheet]
\* effect copies the stored sheet into currentSheet. The generation runs
\* only while the history of the sheet is shorter than cap.
OpenInLoadingView(c, id, cap) ==
    LET sheet == FindSheet(sheets[c], id)
        st == IF needsGeneration(sheet)
              THEN updateSheet(Store(c), generatedSheet(sheet, sheet))
              ELSE Store(c)
    IN /\ currentPage[c] = "list"
       /\ sheet # NoSheet
       /\ sheet.status # DRAFT
       /\ needsGeneration(sheet) => Len(sheet.history) < cap
       /\ currentPage' = [currentPage EXCEPT ![c] = "loading-editor"]
       /\ selectedSheetId' = [selectedSheetId EXCEPT ![c] = id]
       /\ sheets' = [sheets EXCEPT ![c] = st.local]
       /\ db' = st.table
       /\ currentSheet' = [currentSheet EXCEPT ![c] = FindSheet(st.local, id)]
       /\ entered' = [entered EXCEPT ![c] = NoEntry]
       /\ loadingForm' = [loadingForm EXCEPT ![c] =
                             InitialLoadingForm(FindSheet(st.local, id))]
       /\ outcome' = [outcome EXCEPT ![c] = Shown("none")]
       /\ UNCHANGED <<now, activeLocks, auditLogs, form>>

handleViewSheetLoading(c, id) == OpenInLoadingView(c, id, MaxHist)

\* App.handleNavigate (onCancel, onClose, Back): the editor is left.
handleNavigate(c) ==
    /\ currentPage[c] # "list"
    /\ currentPage' = [currentPage EXCEPT ![c] = "list"]
    /\ selectedSheetId' = [selectedSheetId EXCEPT ![c] = 0]
    /\ form' = [form EXCEPT ![c] = NoForm]
    /\ currentSheet' = [currentSheet EXCEPT ![c] = NoSheet]
    /\ entered' = [entered EXCEPT ![c] = NoEntry]
    /\ loadingForm' = [loadingForm EXCEPT ![c] = NoLoadingForm]
    /\ outcome' = [outcome EXCEPT ![c] = Shown("none")]
    /\ UNCHANGED <<now, db, sheets, activeLocks, auditLogs>>

\* The staging form accepts input: it is open and not rendered locked.
stagingEditable(c) ==
    /\ currentPage[c] = "staging-editor"
    /\ ~isLocked(activeSheet(c))

\* Destination / Loading Dock No inputs: setDestination, setLoadingDockNo.
setDestination(c, value) ==
    /\ stagingEditable(c)
    /\ form' = [form EXCEPT ![c].destination = value]
    /\ outcome' = [outcome EXCEPT ![c] = Shown("none")]
    /\ UNCHANGED <<now, db, sheets, activeLocks, auditLogs, currentPage,
                   selectedSheetId, currentSheet, entered, loadingForm>>

setLoadingDockNo(c, value) ==
    /\ stagingEditable(c)
    /\ form' = [form EXCEPT ![c].loadingDockNo = value]
    /\ outcome' = [outcome EXCEPT ![c] = Shown("none")]
    /\ UNCHANGED <<now, db, sheets, activeLocks, auditLogs, currentPage,
                   selectedSheetId, currentSheet, entered, loadingForm>>

handleItemChange(c, index, field, value) ==
    /\ stagingEditable(c)
    /\ index \in 1..Len(form[c].items)
    /\ form' = [form EXCEPT ![c].items[index] = ItemChanged(@, field, value)]
    /\ outcome' = [outcome EXCEPT ![c] = Shown("none")]
    /\ UNCHANGED <<now, db, sheets, activeLocks, auditLogs, currentPage,
                   selectedSheetId, currentSheet, entered, loadingForm>>

\* handleAddRow that numbers the new row as the last row is numbered.
AddedRowSameNo(prev) ==
    [srNo |-> Len(prev), skuName |-> "", casesPerPlt |-> <<0>>,
     fullPlt |-> <<0>>, loose |-> <<0>>, ttlCases |-> 0]

\* handleAddRow: the new row, numbered length + 1 with numeric zeros.
AddedRow(prev) ==
    [srNo |-> Len(prev) + 1, skuName |-> "", casesPerPlt |-> <<0>>,
     fullPlt |-> <<0>>, loose |-> <<0>>, ttlCases |-> 0]

handleAddRow(c) ==
    /\ stagingEditable(c)
    /\ Len(form[c].items) < MaxRows
    /\ form' = [form EXCEPT ![c].items = Append(@, AddedRow(@))]
    /\ outcome' = [outcome EXCEPT ![c] = Shown("none")]
    /\ UNCHANGED <<now, db, sheets, activeLocks, auditLogs, currentPage,
                   selectedSheetId, currentSheet, entered, loadingForm>>

\* handleSave(lock): validation, the lock guard, the loading matrix at
\* lock, addSheet or updateSheet, releaseLock, and the navigation of
\* onLock / onCancel. saved tells whether the upsert saveSheetToSupabase
\* issues reaches the table; when it does not, the error is logged to the
\* console and nothing else differs. elapsed is the number of milliseconds
\* by which Date.now() has advanced when it is next read after a creation.
handleSaveWith(c, lock, saved, elapsed) ==
    LET existingSheet == activeSheet(c)
        errors == validateForm(form[c].destination, form[c].loadingDockNo,
                               form[c].items, lock)
        sheetId == IF existingSheet # NoSheet THEN existingSheet.id ELSE now
        hasLock == acquireLock(activeLocks[c], sheetId)
        sheetData == StagingSheetData(existingSheet, form[c], lock, sheetId,
                                      currentUser(c), now)
        st == IF existingSheet # NoSheet
              THEN updateSheet(Store(c), sheetData)
              ELSE addSheet(Store(c), sheetData)
    IN /\ stagingEditable(c)
       /\ existingSheet = NoSheet => now \in CreateTimes
       /\ existingSheet # NoSheet => Len(existingSheet.history) < MaxHist
       /\ IF Len(errors) > 0
          THEN /\ outcome' = [outcome EXCEPT ![c] =
                                 [kind |-> "Validation Failed", errors |-> errors]]
               /\ UNCHANGED <<now, db, sheets, activeLocks, auditLogs,
                              currentPage, selectedSheetId, form, currentSheet,
                              entered, loadingForm>>
          ELSE IF lock /\ ~hasLock
          THEN /\ outcome' = [outcome EXCEPT ![c] = Shown("Cannot Lock")]
               /\ UNCHANGED <<now, db, sheets, activeLocks, auditLogs,
                              currentPage, selectedSheetId, form, currentSheet,
                              entered, loadingForm>>
          ELSE /\ sheets' = [sheets EXCEPT ![c] = st.local]
               /\ db' = IF saved THEN st.table ELSE db
               /\ auditLogs' = [auditLogs EXCEPT ![c] = st.logs]
               /\ activeLocks' = [activeLocks EXCEPT ![c] =
                                     IF lock
                                     THEN releaseLock(@ \cup {sheetId},
                                                      sheetId)
                                     ELSE @]
               /\ now' = IF existingSheet = NoSheet THEN now + elapsed ELSE now
               /\ currentPage' = [currentPage EXCEPT ![c] = "list"]
               /\ selectedSheetId' = [selectedSheetId EXCEPT ![c] = 0]
               /\ form' = [form EXCEPT ![c] = NoForm]
               /\ outcome' = [outcome EXCEPT ![c] = Shown("none")]
               /\ UNCHANGED <<currentSheet, entered, loadingForm>>

\* handleSave with its upsert stored and the clock one millisecond further
\* when the next Date.now() is read.
handleSave(c, lock) == handleSaveWith(c, lock, TRUE, 1)

\* The grid input at (row, col) of entry li is the one being typed in.
Typing(e, li, row, col) ==
    e.skuSrNo = li.skuSrNo /\ e.row = row /\ e.col = col

\* The loading form accepts input: it is open on a sheet not COMPLETED.
loadingEditable(c) ==
    /\ currentPage[c] = "loading-editor"
    /\ currentSheet[c].status # COMPLETED

\* onChange of the grid input at (row, col) of entry k: val is the new text
\* of the input, different from the text it showed.
handleLoadingCellChange(c, k, row, col, val) ==
    LET cur == currentSheet[c]
        sheet == activeSheet(c)
        value == IF val = "" THEN 0 ELSE parseInt(val)
    IN /\ loadingEditable(c)
       /\ k \in 1..Len(cur.loadingItems)
       /\ cellRendered(cur, sheet, cur.loadingItems[k], row, col)
       /\ val # Display(CellValue(cur.loadingItems[k], row, col))
       /\ currentSheet' = [currentSheet EXCEPT ![c].loadingItems =
             LoadingCellChanged(cur.loadingItems, sheet,
                                cur.loadingItems[k].skuSrNo, row, col, value)]
       /\ entered' = [entered EXCEPT ![c] =
             IF Typing(@, cur.loadingItems[k], row, col) THEN @
             ELSE [skuSrNo |-> cur.loadingItems[k].skuSrNo, row |-> row,
                   col |-> col,
                   value |-> CellValue(cur.loadingItems[k], row, col),
                   total |-> cur.loadingItems[k].total,
                   balance |-> cur.loadingItems[k].balance]]
       /\ outcome' = [outcome EXCEPT ![c] = Shown("none")]
       /\ UNCHANGED <<now, db, sheets, activeLocks, auditLogs, currentPage,
                      selectedSheetId, form, loadingForm>>

\* handleCellBlur on the input at (row, col): val is the text it shows.
handleCellBlur(c, k, row, col) ==
    LET cur == currentSheet[c]
        sheet == activeSheet(c)
        li == cur.loadingItems[k]
        val == Display(CellValue(li, row, col))
        sItem == FindStaging(sheet, li.skuSrNo)
    IN /\ loadingEditable(c)
       /\ k \in 1..Len(cur.loadingItems)
       /\ cellRendered(cur, sheet, li, row, col)
       /\ IF val # "" /\ hasStaging(sheet, li.skuSrNo)
             /\ sItem.casesPerPlt > 0 /\ parseInt(val) # sItem.casesPerPlt
          THEN /\ currentSheet' = [currentSheet EXCEPT ![c].loadingItems =
                     LoadingCellChanged(cur.loadingItems, sheet, li.skuSrNo,
                                        row, col, 0)]
               /\ outcome' = [outcome EXCEPT ![c] = Shown("Incorrect Quantity")]
          ELSE /\ UNCHANGED currentSheet
               /\ outcome' = [outcome EXCEPT ![c] = Shown("none")]
       /\ entered' = [entered EXCEPT ![c] = NoEntry]
       /\ UNCHANGED <<now, db, sheets, activeLocks, auditLogs, currentPage,
                      selectedSheetId, form, loadingForm>>

\* onChange of the loose input of entry k.
handleLooseChange(c, k, val) ==
    LET cur == currentSheet[c]
        sheet == activeSheet(c)
        value == IF val = "" THEN 0 ELSE parseInt(val)
    IN /\ loadingEditable(c)
       /\ k \in 1..Len(cur.loadingItems)
       /\ hasStaging(sheet, cur.loadingItems[k].skuSrNo)
       /\ FindStaging(sheet, cur.loadingItems[k].skuSrNo).skuName # ""
       /\ val # Display(cur.loadingItems[k].looseInput)
       /\ currentSheet' = [currentSheet EXCEPT ![c].loadingItems =
             LoadingLooseChanged(cur.loadingItems, sheet,
                                 cur.loadingItems[k].skuSrNo, value)]
       /\ entered' = [entered EXCEPT ![c] = NoEntry]
       /\ outcome' = [outcome EXCEPT ![c] = Shown("none")]
       /\ UNCHANGED <<now, db, sheets, activeLocks, auditLogs, currentPage,
                      selectedSheetId, form, loadingForm>>

\* handleAdditionalChange, field 'count': counts[colIndex] of additional item
\* id becomes `value === '' ? 0 : parseInt(value) || 0`, total the sum.
AdditionalChanged(items, id, colIndex, value) ==
    [i \in 1..Len(items) |->
        IF items[i].id # id THEN items[i]
        ELSE LET newCounts == [items[i].counts EXCEPT ![colIndex + 1] =
                                  IF value = "" THEN 0 ELSE parseInt(value)]
             IN [items[i] EXCEPT !.counts = newCounts,
                                 !.total = SumSeq(newCounts)]]

\* onChange of the count input colIndex of additional item id.
handleAdditionalChange(c, id, colIndex, value) ==
    LET cur == currentSheet[c]
    IN /\ loadingEditable(c)
       /\ \E i \in 1..Len(cur.additionalItems) :
              /\ cur.additionalItems[i].id = id
              /\ colIndex + 1 \in 1..Len(cur.additionalItems[i].counts)
              /\ value # Display(cur.additionalItems[i].counts[colIndex + 1])
       /\ currentSheet' = [currentSheet EXCEPT ![c].additionalItems =
             AdditionalChanged(cur.additionalItems, id, colIndex, value)]
       /\ outcome' = [outcome EXCEPT ![c] = Shown("none")]
       /\ UNCHANGED <<now, db, sheets, activeLocks, auditLogs, currentPage,
                      selectedSheetId, form, entered, loadingForm>>

\* handleSaveProgress / handleSubmit: buildSheetData, updateSheet, and the
\* [sheet] effect that copies the stored sheet back into currentSheet.
\* saved tells whether the upserts reach the table.
SaveFromLoadingWith(c, status, shown, saved) ==
    LET cur == currentSheet[c]
        sheet == activeSheet(c)
        st == SavedFromLoading(Store(c), cur, sheet, loadingForm[c], status,
                               currentUser(c), now)
    IN /\ loadingEditable(c)
       /\ Len(cur.history) < MaxHist
       /\ sheets' = [sheets EXCEPT ![c] = st.local]
       /\ db' = IF saved THEN st.table ELSE db
       /\ currentSheet' = [currentSheet EXCEPT ![c] =
                              FindSheet(st.local, selectedSheetId[c])]
       /\ loadingForm' = [loadingForm EXCEPT ![c] =
             InitialLoadingForm(FindSheet(st.local, selectedSheetId[c]))]
       /\ outcome' = [outcome EXCEPT ![c] = Shown(shown)]
       /\ UNCHANGED <<now, activeLocks, auditLogs, currentPage,
                      selectedSheetId, form, entered>>

SaveFromLoading(c, status, shown) ==
    SaveFromLoadingWith(c, status, shown, TRUE)

\* onChange of the Loading End Time input (disabled once completed).
setEndTime(c, value) ==
    /\ loadingEditable(c)
    /\ value # loadingForm[c].endTime
    /\ loadingForm' = [loadingForm EXCEPT ![c].endTime = value]
    /\ outcome' = [outcome EXCEPT ![c] = Shown("none")]
    /\ UNCHANGED <<now, db, sheets, activeLocks, auditLogs, currentPage,
                   selectedSheetId, form, currentSheet, entered>>

\* onChange of the remarks textarea (disabled once completed).
setRemarks(c, value) ==
    /\ loadingEditable(c)
    /\ value # loadingForm[c].remarks
    /\ loadingForm' = [loadingForm EXCEPT ![c].remarks = value]
    /\ outcome' = [outcome EXCEPT ![c] = Shown("none")]
    /\ UNCHANGED <<now, db, sheets, activeLocks, auditLogs, currentPage,
                   selectedSheetId, form, currentSheet, entered>>

handleSaveProgress(c) ==
    SaveFromLoading(c, currentSheet[c].status, "Progress Saved Successfully!")

handleSubmit(c) ==
    SaveFromLoading(c, COMPLETED, "Sheet Completed Successfully!")

\* A call of the context's addComment for a sheet of the session's list.
\* No component of the sources calls it; the caller is left open.
CallAddComment(c, id, text) ==
    LET st == addComment(Store(c), id, currentUser(c), text)
    IN /\ currentPage[c] = "list"
       /\ FindSheet(sheets[c], id) # NoSheet
       /\ Len(FindSheet(sheets[c], id).comments) < MaxComments
       /\ sheets' = [sheets EXCEPT ![c] = st.local]
       /\ db' = st.table
       /\ outcome' = [outcome EXCEPT ![c] = Shown("none")]
       /\ UNCHANGED <<now, activeLocks, auditLogs, currentPage,
                      selectedSheetId, form, currentSheet, entered,
                      loadingForm>>

\* The store after a delete of the dashboard, as the session's variables.
Deleted(c, st) ==
    /\ sheets' = [sheets EXCEPT ![c] = st.local]
    /\ db' = st.table
    /\ auditLogs' = [auditLogs EXCEPT ![c] = st.logs]
    /\ outcome' = [outcome EXCEPT ![c] = Shown("none")]
    /\ UNCHANGED <<now, activeLocks, currentPage, selectedSheetId, form,
                   currentSheet, entered, loadingForm>>

\* AdminDashboard.handleDelete (v5, v8): answer is what the administrator
\* types at the prompt, "" also standing for Cancel; deleteSheet is called
\* only with a non-empty answer.
handleDelete(c, id, answer) ==
    /\ currentPage[c] = "list"
    /\ FindSheet(sheets[c], id) # NoSheet
    /\ IF answer # ""
       THEN Deleted(c, deleteSheet(Store(c), id, answer))
       ELSE /\ outcome' = [outcome EXCEPT ![c] = Shown("none")]
            /\ UNCHANGED <<now, db, sheets, activeLocks, auditLogs,
                           currentPage, selectedSheetId, form, currentSheet,
                           entered, loadingForm>>

\* The trash button of the v7 AdminDashboard sheet table: deleteSheet with
\* the fixed text 'Admin Delete', nothing is asked.
DeleteButtonClick(c, id) ==
    /\ currentPage[c] = "list"
    /\ FindSheet(sheets[c], id) # NoSheet
    /\ Deleted(c, deleteSheet(Store(c), id, "Admin Delete"))

\* ---------------------------------------------------------- specification
\* Spec: two sessions over the shared table, through the whole lifecycle.
\* The staging inputs are the ones lock validation asks for (destination,
\* dock, one SKU name); quantities are entered in SpecStaging and
\* SpecLoading.
Next ==
    \E c \in Clients :
        \/ FetchData(c)
        \/ handleCreateSheet(c)
        \/ \E s \in Range(sheets[c]), source \in {"staging", "dashboard"} :
               handleViewSheetStaging(c, s.id, source)
        \/ \E s \in Range(sheets[c]) : handleViewSheetLoading(c, s.id)
        \/ handleNavigate(c)
        \/ setDestination(c, "D")
        \/ setLoadingDockNo(c, "D")
        \/ handleItemChange(c, 1, "skuName", "A")
        \/ \E lock \in BOOLEAN : handleSave(c, lock)
        \/ handleSaveProgress(c)
        \/ handleSubmit(c)

Spec == Init /\ [][Next]_vars

\* SpecStaging: one session fills in the form of a new sheet with any
\* sequence of header edits, row edits and Add Row, and saves or locks it.
EditRows == {1, 2}

StagingFields == {"casesPerPlt", "fullPlt", "loose"}

NextStaging ==
    \/ handleCreateSheet("c1")
    \/ handleNavigate("c1")
    \/ \E v \in HeaderVals : setDestination("c1", v)
    \/ \E v \in HeaderVals : setLoadingDockNo("c1", v)
    \/ \E i \in EditRows, v \in SkuNames : handleItemChange("c1", i, "skuName", v)
    \/ \E i \in EditRows, f \in StagingFields, v \in NumVals :
           handleItemChange("c1", i, f, v)
    \/ handleAddRow("c1")
    \/ \E lock \in BOOLEAN : handleSave("c1", lock)

SpecStaging == Init /\ [][NextStaging]_vars

\* SpecLoading: a lock-ready DRAFT sheet, saved by session c1 and fetched by
\* session c2, is locked by either session and loaded by session c1.  The
\* sheet is one of LoadForms, each the form a sequence of handleItemChange
\* calls leaves.
RowWith(n, name, cases, full, loose) ==
    ItemChanged(ItemChanged(ItemChanged(ItemChanged(
        InitialItems(NoSheet)[n], "skuName", name),
        "casesPerPlt", cases), "fullPlt", full), "loose", loose)

LoadForm(row1, row2) ==
    [destination |-> "D", loadingDockNo |-> "D", items |-> <<row1, row2>>]

LoadForms ==
    { LoadForm(RowWith(1, "A", "2", "2", "1"), RowWith(2, "", "", "", "")),
      LoadForm(RowWith(1, "A", "", "", "1"), RowWith(2, "", "2", "1", "")),
      LoadForm(RowWith(1, "A", "", "", ""), RowWith(2, "", "", "", "1")),
      LoadForm(RowWith(1, "A", "2", "1", ""), RowWith(2, "A", "", "", "1")) }

InitLoading ==
    \E f \in LoadForms :
        LET st == addSheet([local |-> <<>>, table |-> {}, logs |-> <<>>],
                           StagingSheetData(NoSheet, f, FALSE, 1, "c1", 1))
        IN /\ now = 2
           /\ db = st.table
           /\ sheets = [c \in Clients |-> st.local]
           /\ activeLocks = [c \in Clients |-> {}]
           /\ auditLogs = [c \in Clients |-> IF c = "c1" THEN st.logs ELSE <<>>]
           /\ currentPage = [c \in Clients |-> "list"]
           /\ selectedSheetId = [c \in Clients |-> 0]
           /\ form = [c \in Clients |-> NoForm]
           /\ currentSheet = [c \in Clients |-> NoSheet]
           /\ entered = [c \in Clients |-> NoEntry]
           /\ loadingForm = [c \in Clients |-> NoLoadingForm]
           /\ outcome = [c \in Clients |-> Shown("none")]

GridRows == {0}

GridCols == {0, 1}

NextLoading ==
    \/ \E c \in Clients :
        \/ \E s \in Range(sheets[c]) : handleViewSheetStaging(c, s.id, "dashboard")
        \/ handleSave(c, TRUE)
        \/ handleNavigate(c)
    \/ \E s \in Range(sheets["c1"]) : handleViewSheetLoading("c1", s.id)
    \/ \E k \in EditRows, row \in GridRows, col \in GridCols, v \in CellVals :
           handleLoadingCellChange("c1", k, row, col, v)
    \/ \E k \in EditRows, row \in GridRows, col \in GridCols :
           handleCellBlur("c1", k, row, col)
    \/ \E k \in EditRows, v \in LooseVals : handleLooseChange("c1", k, v)
    \/ handleSaveProgress("c1")
    \/ handleSubmit("c1")

SpecLoading == InitLoading /\ [][NextLoading]_vars

\* SpecGenerate: the loading-matrix generation run again and again on one
\* sheet.  The sheet has the staging rows of one of LoadForms and any of
\* ExistingItems / no or a full additional pool as what exists already; the
\* open page tells the generation that runs: the lock-time generation of
\* StagingSheet.handleSave or LoadingSheet.generateLoadingItems.  Each run
\* gets the sheet the run before returned; currentSheet keeps the sheet
\* that was passed in.
ExistingEntry(srNo, value, loose, balance) ==
    [skuSrNo |-> srNo,
     cells |-> IF value = 0 THEN <<>>
               ELSE <<[row |-> 0, col |-> 0, value |-> value]>>,
     looseInput |-> loose, total |-> value + loose, balance |-> balance]

ExistingItems ==
    { <<>>,
      <<ExistingEntry(1, 2, 1, 0)>>,
      <<ExistingEntry(2, 0, 1, 7)>>,
      <<ExistingEntry(1, 2, 0, 2), ExistingEntry(2, 0, 1, 0)>>,
      <<ExistingEntry(3, 1, 1, 1)>> }

\* The staging form showing the rows of a stored sheet.
SnapshotForm(sheet) ==
    [destination |-> sheet.destination,
     loadingDockNo |-> sheet.loadingDockNo,
     items |-> [i \in 1..Len(sheet.stagingItems) |->
                  [sheet.stagingItems[i] EXCEPT
                      !.casesPerPlt = <<@>>, !.fullPlt = <<@>>, !.loose = <<@>>]]]

InitGenerate ==
    \E f \in LoadForms, existing \in ExistingItems,
       pool \in {<<>>, AdditionalPool},
       page \in {"staging-editor", "loading-editor"} :
        LET sheet == [StagingSheetData(NoSheet, f, FALSE, 1, "c1", 1) EXCEPT
                         !.status = IF page = "staging-editor" THEN DRAFT
                                    ELSE LOCKED,
                         !.loadingItems = existing,
                         !.additionalItems = pool]
        IN /\ now = 1
           /\ db = {}
           /\ sheets = [c \in Clients |-> IF c = "c1" THEN <<sheet>> ELSE <<>>]
           /\ activeLocks = [c \in Clients |-> {}]
           /\ auditLogs = [c \in Clients |-> <<>>]
           /\ currentPage = [c \in Clients |-> IF c = "c1" THEN page ELSE "list"]
           /\ selectedSheetId = [c \in Clients |-> IF c = "c1" THEN 1 ELSE 0]
           /\ form = [c \in Clients |-> NoForm]
           /\ currentSheet = [c \in Clients |-> NoSheet]
           /\ entered = [c \in Clients |-> NoEntry]
           /\ loadingForm = [c \in Clients |-> NoLoadingForm]
           /\ outcome = [c \in Clients |-> Shown("none")]

\* The lock-time generation of handleSave on the sheet of the last run.
GenerateAtLock(c) ==
    LET sheet == activeSheet(c)
    IN /\ currentPage[c] = "staging-editor"
       /\ now <= MaxCalls
       /\ sheets' = [sheets EXCEPT ![c] =
             <<StagingSheetData(sheet, SnapshotForm(sheet), TRUE, sheet.id,
                                currentUser(c), 1)>>]
       /\ currentSheet' = [currentSheet EXCEPT ![c] = sheet]
       /\ now' = now + 1
       /\ UNCHANGED <<db, activeLocks, auditLogs, currentPage, selectedSheetId,
                      form, entered, loadingForm, outcome>>

\* generateLoadingItems on the sheet of the last run.
GenerateInLoading(c) ==
    LET sheet == activeSheet(c)
    IN /\ currentPage[c] = "loading-editor"
       /\ now <= MaxCalls
       /\ sheets' = [sheets EXCEPT ![c] = <<generatedSheet(sheet, sheet)>>]
       /\ currentSheet' = [currentSheet EXCEPT ![c] = sheet]
       /\ now' = now + 1
       /\ UNCHANGED <<db, activeLocks, auditLogs, currentPage, selectedSheetId,
                      form, entered, loadingForm, outcome>>

NextGenerate == GenerateAtLock("c1") \/ GenerateInLoading("c1")

SpecGenerate == InitGenerate /\ [][NextGenerate]_vars

\* ----------------------------------------------------------------- claims
\* The row of the table `sheets` with the id (NoSheet when there is none).
\* SpecRecords: one session (an administrator), the sheet's lifecycle with
\* the header inputs of the loading form, comments and deletion. A loose
\* quantity on the unnamed second row gives a sheet with staged cases and
\* no loading entry, the case in which the loading view generates; the
\* view may generate once more than the other writes allow, so that a
\* sheet written MaxHist times can still be opened.
EndTimes == {"", "18:30:00"}
RemarkVals == {"", "short", "excess"}
CommentTexts == {"noted"}
PromptAnswers == {"", "obsolete"}

NextRecords ==
    \E id \in CreateTimes :
       \/ handleCreateSheet("c1")
       \/ setDestination("c1", "D")
       \/ setLoadingDockNo("c1", "D")
       \/ handleItemChange("c1", 1, "skuName", "A")
       \/ handleItemChange("c1", 2, "loose", "1")
       \/ \E lock \in BOOLEAN : handleSave("c1", lock)
       \/ handleViewSheetStaging("c1", id, "staging")
       \/ OpenInLoadingView("c1", id, MaxHist + 1)
       \/ handleNavigate("c1")
       \/ \E value \in EndTimes : setEndTime("c1", value)
       \/ \E value \in RemarkVals : setRemarks("c1", value)
       \/ handleSaveProgress("c1")
       \/ handleSubmit("c1")
       \/ \E text \in CommentTexts : CallAddComment("c1", id, text)
       \/ \E answer \in PromptAnswers : handleDelete("c1", id, answer)
       \/ DeleteButtonClick("c1", id)

SpecRecords == Init /\ [][NextRecords]_vars

\* SpecItems: two sessions hold the lock-ready DRAFT sheet of InitLoading.
\* Session c1 locks and loads it; session c2 renames rows, adds rows and
\* saves or locks its form, also from a copy c1 has written over since.
RowNames == {"", "A"}

NextItems ==
    \/ \E c \in Clients :
           \E s \in Range(sheets[c]) : handleViewSheetStaging(c, s.id, "dashboard")
    \/ handleSave("c1", TRUE)
    \/ \E s \in Range(sheets["c1"]) : handleViewSheetLoading("c1", s.id)
    \/ handleNavigate("c1")
    \/ \E k \in EditRows : handleLooseChange("c1", k, "1")
    \/ handleSaveProgress("c1")
    \/ handleSubmit("c1")
    \/ FetchData("c2")
    \/ \E i \in EditRows, v \in RowNames : handleItemChange("c2", i, "skuName", v)
    \/ handleAddRow("c2")
    \/ \E lock \in BOOLEAN : handleSave("c2", lock)

SpecItems == InitLoading /\ [][NextItems]_vars

\* SpecEntries: session c1 locks the sheet of InitLoading and types into
\* the number inputs of the loading form: a grid cell, the loose input of
\* an entry and a count of the additional pool.  A number input hands
\* onChange '' or the text of a number, negative numbers included.
EntryVals == {"", "1", "-1"}

NextEntries ==
    \/ \E s \in Range(sheets["c1"]) : handleViewSheetStaging("c1", s.id, "dashboard")
    \/ handleSave("c1", TRUE)
    \/ \E s \in Range(sheets["c1"]) : handleViewSheetLoading("c1", s.id)
    \/ handleNavigate("c1")
    \/ \E k \in EditRows, v \in EntryVals : handleLoadingCellChange("c1", k, 0, 0, v)
    \/ \E k \in EditRows : handleCellBlur("c1", k, 0, 0)
    \/ \E k \in EditRows, v \in EntryVals : handleLooseChange("c1", k, v)
    \/ \E v \in EntryVals : handleAdditionalChange("c1", 1, 0, v)
    \/ handleSaveProgress("c1")
    \/ handleSubmit("c1")

SpecEntries == InitLoading /\ [][NextEntries]_vars

\* SpecPersist: one session whose upserts may fail to reach the table
\* (supabase returns an error), and a reload that shows what was stored.
SaveFails(c, lock) == handleSaveWith(c, lock, FALSE, 1)

SaveProgressFails(c) ==
    SaveFromLoadingWith(c, currentSheet[c].status,
                        "Progress Saved Successfully!", FALSE)

SubmitFails(c) ==
    SaveFromLoadingWith(c, COMPLETED, "Sheet Completed Successfully!", FALSE)

NextPersist ==
    \E id \in CreateTimes :
       \/ FetchData("c1")
       \/ handleCreateSheet("c1")
       \/ setDestination("c1", "D")
       \/ setLoadingDockNo("c1", "D")
       \/ handleItemChange("c1", 1, "skuName", "A")
       \/ \E lock \in BOOLEAN : handleSave("c1", lock)
       \/ \E lock \in BOOLEAN : SaveFails("c1", lock)
       \/ handleViewSheetStaging("c1", id, "staging")
       \/ handleViewSheetLoading("c1", id)
       \/ handleNavigate("c1")
       \/ handleSaveProgress("c1")
       \/ SaveProgressFails("c1")
       \/ handleSubmit("c1")
       \/ SubmitFails("c1")

SpecPersist == Init /\ [][NextPersist]_vars

\* SpecDelete: both sessions list the stored DRAFT sheets of InitLoading;
\* the first works on the sheet, the second is an administrator who
\* deletes it from the dashboard.
NextDelete ==
    \E id \in CreateTimes :
       \/ handleViewSheetStaging("c1", id, "staging")
       \/ \E lock \in BOOLEAN : handleSave("c1", lock)
       \/ handleViewSheetLoading("c1", id)
       \/ handleNavigate("c1")
       \/ handleSaveProgress("c1")
       \/ handleSubmit("c1")
       \/ \E text \in CommentTexts : CallAddComment("c1", id, text)
       \/ \E answer \in PromptAnswers : handleDelete("c2", id, answer)

SpecDelete == InitLoading /\ [][NextDelete]_vars

\* SpecCreate: two sessions create sheets; the second Date.now() may be
\* read in the millisecond of the first.
SameMillisecond == {0, 1}

NextCreate ==
    \E c \in Clients :
       \/ FetchData(c)
       \/ Len(sheets[c]) < MaxSheets /\ handleCreateSheet(c)
       \/ setDestination(c, "D")
       \/ handleItemChange(c, 1, "skuName", "A")
       \/ \E lock \in BOOLEAN, elapsed \in SameMillisecond :
             handleSaveWith(c, lock, TRUE, elapsed)

SpecCreate == Init /\ [][NextCreate]_vars

StoredIn(table, id) ==
    IF \E r \in table : r.id = id THEN CHOOSE r \in table : r.id = id
    ELSE NoSheet

StoredSheet(id) == StoredIn(db, id)

\* One step of a status sequence that is a subsequence of
\* DRAFT, LOCKED, COMPLETED.
AllowedStatusStep(old, new) ==
    \/ old = new
    \/ old = DRAFT /\ new = LOCKED
    \/ old = LOCKED /\ new = COMPLETED

\* C1 -- lifecycle monotonicity: for every sheet id, every write to the
\* table leaves the stored status where it was or moves it DRAFT -> LOCKED
\* or LOCKED -> COMPLETED; it never moves back and never goes from DRAFT
\* directly to COMPLETED, whichever session's form issues the write.
C1_LifecycleMonotone ==
    [][\A r \in db : \A q \in db' :
          q.id = r.id => AllowedStatusStep(r.status, q.status)]_vars

\* C2 -- lock exclusivity: of two lock attempts for the same sheet id, the
\* one that runs after the other has moved the stored sheet to LOCKED is
\* rejected ("Cannot Lock", acquireLock false) and writes nothing.
C2_LockExclusive ==
    [][\A c \in Clients :
          (handleSave(c, TRUE)
             /\ StoredSheet(selectedSheetId[c]).status = LOCKED)
          => (UNCHANGED db /\ outcome'[c].kind = "Cannot Lock")]_vars

\* The rules of lock validation that a form violates, each judged on its own.
ViolatedRules(f) ==
    (IF Trim(f.destination) = "" THEN {"Destination is required"} ELSE {})
    \cup (IF Trim(f.loadingDockNo) = ""
          THEN {"Loading Dock No is required"} ELSE {})
    \cup (IF \A i \in 1..Len(f.items) : Trim(f.items[i].skuName) = ""
          THEN {"At least one valid item row (SKU Name) is required to lock."}
          ELSE {})

\* C3 -- lock validation completeness: the violations a failed lock reports
\* are exactly the rules the form violates, each independently of the
\* others: destination, loading dock and at-least-one-item.
C3_ValidationComplete ==
    \A c \in Clients :
        outcome[c].kind = "Validation Failed"
        => Range(outcome[c].errors) = ViolatedRules(form[c])

\* C4 -- a lock attempt on a form that violates a lock rule changes
\* nothing: the sheets of the session and of the table, the active locks
\* and the audit log are as before, and the sheet, if stored, is still DRAFT.
C4_FailedLockChangesNothing ==
    [][\A c \in Clients :
          (handleSave(c, TRUE) /\ ViolatedRules(form[c]) # {})
          => /\ UNCHANGED <<db, sheets, activeLocks, auditLogs>>
             /\ selectedSheetId[c] # 0
                 => FindSheet(sheets'[c], selectedSheetId[c]).status = DRAFT]_vars

\* A lock attempt on a stored DRAFT sheet has just failed validation.
C4_Witness ==
    \E c \in Clients :
        /\ outcome[c].kind = "Validation Failed"
        /\ activeSheet(c).status = DRAFT
        /\ StoredSheet(selectedSheetId[c]).status = DRAFT

\* Every copy of a sheet the program stores: the table rows and the
\* elements of every session's list.
StoredCopies == db \cup UNION {Range(sheets[c]) : c \in Clients}

\* C5 -- quantity invariant: every staging item of every stored sheet has
\* ttlCases = casesPerPlt * fullPlt + loose (a blank factor stored as 0).
C5_QuantityInvariant ==
    \A sh \in StoredCopies : \A i \in 1..Len(sh.stagingItems) :
        LET it == sh.stagingItems[i]
        IN it.ttlCases = it.casesPerPlt * it.fullPlt + it.loose

\* A stored sheet has a row with all three factors entered and a row that
\* was left blank.
C5_Witness ==
    \E sh \in db : \E i, j \in 1..Len(sh.stagingItems) :
        /\ sh.stagingItems[i].casesPerPlt = 3
        /\ sh.stagingItems[i].fullPlt = 3
        /\ sh.stagingItems[i].loose = 3
        /\ sh.stagingItems[i].ttlCases = 12
        /\ sh.stagingItems[j].ttlCases = 0

\* The entry generation gives a staging item that has none yet.
FreshEntry(item) ==
    [skuSrNo |-> item.srNo, cells |-> <<>>, looseInput |-> 0, total |-> 0,
     balance |-> item.ttlCases]

\* C9 -- a successful lock stores exactly one loading entry for each
\* staging item with non-empty skuName and ttlCases > 0 and none for any
\* other staging item; an entry generated for an item that had none is
\* FreshEntry: cells empty, looseInput 0, total 0, balance ttlCases.
C9_LockGeneratesEntries ==
    [][\A c \in Clients :
          (handleSave(c, TRUE) /\ outcome'[c].kind = "none")
          => LET id == IF selectedSheetId[c] # 0 THEN selectedSheetId[c] ELSE now
                 sh == StoredIn(db', id)
                 old == activeSheet(c).loadingItems
             IN /\ sh.status = LOCKED
                /\ \A i \in 1..Len(sh.stagingItems) :
                      LET it == sh.stagingItems[i]
                          n == Cardinality({k \in 1..Len(sh.loadingItems) :
                                   sh.loadingItems[k].skuSrNo = it.srNo})
                      IN IF it.skuName # "" /\ it.ttlCases > 0
                         THEN n = 1 ELSE n = 0
                /\ \A k \in 1..Len(sh.loadingItems) :
                      \/ \E j \in 1..Len(old) :
                             old[j].skuSrNo = sh.loadingItems[k].skuSrNo
                      \/ \E i \in 1..Len(sh.stagingItems) :
                             sh.loadingItems[k] = FreshEntry(sh.stagingItems[i])]_vars

\* A lock has stored a sheet with an entry for its one complete row and none
\* for a row with cases but no SKU name.
C9_Witness ==
    \E sh \in db :
        /\ sh.status = LOCKED
        /\ Len(sh.loadingItems) = 1
        /\ sh.loadingItems[1].balance = 12
        /\ \E i \in 1..Len(sh.stagingItems) :
              sh.stagingItems[i].skuName = "" /\ sh.stagingItems[i].ttlCases > 0

\* total + balance of every loading entry of a sheet is the ttlCases of the
\* staging item the entry belongs to.
BalanceConserved(sh) ==
    \A k \in 1..Len(sh.loadingItems) :
        LET li == sh.loadingItems[k]
        IN /\ hasStaging(sh, li.skuSrNo)
           /\ li.total + li.balance = FindStaging(sh, li.skuSrNo).ttlCases

\* C6 -- balance conservation: on a LOCKED sheet, in the loading form under
\* edit and in every stored copy, every loading entry (edited or not) has
\* total + balance = ttlCases of the staging item with its skuSrNo.
C6_BalanceConservation ==
    /\ \A c \in Clients :
          (currentPage[c] = "loading-editor" /\ currentSheet[c].status = LOCKED)
          => BalanceConserved(currentSheet[c])
    /\ \A sh \in StoredCopies : sh.status = LOCKED => BalanceConserved(sh)

\* The loading form of a LOCKED sheet holds an entry with a filled cell and
\* a loose count, next to an entry nobody edited.
C6_Witness ==
    \E c \in Clients :
        /\ currentPage[c] = "loading-editor"
        /\ currentSheet[c].status = LOCKED
        /\ \E k, j \in 1..Len(currentSheet[c].loadingItems) :
              LET li == currentSheet[c].loadingItems[k]
              IN /\ CellValue(li, 0, 0) > 0
                 /\ li.looseInput > 0
                 /\ li.total = CellValue(li, 0, 0) + li.looseInput
                 /\ currentSheet[c].loadingItems[j].total = 0

\* A blur commits, in the grid input (row, col) of entry k, a value that is
\* not the casesPerPlt (> 0) of the SKU.
CommitsWrongValue(c, k, row, col) ==
    /\ handleCellBlur(c, k, row, col)
    /\ LET li == currentSheet[c].loadingItems[k]
           cpp == FindStaging(activeSheet(c), li.skuSrNo).casesPerPlt
       IN cpp > 0 /\ CellValue(li, row, col) \notin {0, cpp}

\* C7 as stated -- after a blur that commits a wrong value the cell is blank
\* and the entry's total and balance are what they were before the value
\* was typed into the cell.
C7_TotalsAsBeforeEntry ==
    [][\A c \in Clients, k \in EditRows, row \in GridRows, col \in GridCols :
          (CommitsWrongValue(c, k, row, col)
             /\ Typing(entered[c], currentSheet[c].loadingItems[k], row, col))
          => LET li == currentSheet'[c].loadingItems[k]
             IN /\ CellValue(li, row, col) = 0
                /\ li.total = entered[c].total
                /\ li.balance = entered[c].balance]_vars

\* C7 amended -- after a blur that commits a wrong value, on every attempt,
\* the cell is blank, the user is told, and the entry's total and balance
\* are those before the blur without the rejected value; they are what
\* they were before the value was typed when the cell was blank then.
C7_WrongValueCleared ==
    [][\A c \in Clients, k \in EditRows, row \in GridRows, col \in GridCols :
          CommitsWrongValue(c, k, row, col)
          => LET old == currentSheet[c].loadingItems[k]
                 li == currentSheet'[c].loadingItems[k]
                 v == CellValue(old, row, col)
             IN /\ CellValue(li, row, col) = 0
                /\ outcome'[c].kind = "Incorrect Quantity"
                /\ li.total = old.total - v
                /\ li.balance = old.balance + v
                /\ (Typing(entered[c], old, row, col) /\ entered[c].value = 0)
                   => (li.total = entered[c].total
                       /\ li.balance = entered[c].balance)]_vars

\* A wrong value has just been rejected in an entry that still counts cases.
C7_Witness ==
    \E c \in Clients :
        /\ outcome[c].kind = "Incorrect Quantity"
        /\ \E k \in 1..Len(currentSheet[c].loadingItems) :
              /\ currentSheet[c].loadingItems[k].total > 0
              /\ \E i \in 1..Len(currentSheet[c].loadingItems[k].cells) :
                    currentSheet[c].loadingItems[k].cells[i].value = 0

\* C8 -- in every row of the table, for every SKU with casesPerPlt > 0,
\* every grid cell with a non-zero value holds exactly casesPerPlt.
C8_StoredCellsHoldFullPallets ==
    \A sh \in db : \A k \in 1..Len(sh.loadingItems) :
        LET li == sh.loadingItems[k]
            cpp == FindStaging(sh, li.skuSrNo).casesPerPlt
        IN cpp > 0 => \A i \in 1..Len(li.cells) :
                          li.cells[i].value # 0 => li.cells[i].value = cpp

\* A step in which client c generates loading items for the sheet id: the
\* lock of handleSave, the LoadingSheet mount effect, or buildSheetData on
\* a form without loading items.
GeneratesFor(c, id) ==
    \/ /\ selectedSheetId[c] = id
       /\ handleSave(c, TRUE)
       /\ outcome'[c].kind = "none"
    \/ /\ handleViewSheetLoading(c, id)
       /\ needsGeneration(FindSheet(sheets[c], id))
    \/ /\ selectedSheetId[c] = id
       /\ Len(currentSheet[c].loadingItems) = 0
       /\ (handleSaveProgress(c) \/ handleSubmit(c))

\* C10 -- whenever loading items are generated for a stored sheet that
\* already has an entry for a skuSrNo, the stored entry for that skuSrNo
\* keeps its cells, looseInput and total, and its balance is ttlCases - total.
C10_GenerationKeepsEntries ==
    [][\A c \in Clients : \A s \in db :
          GeneratesFor(c, s.id)
          => LET new == StoredIn(db', s.id)
             IN \A k \in 1..Len(s.loadingItems), j \in 1..Len(new.loadingItems) :
                    LET old == s.loadingItems[k]
                        li == new.loadingItems[j]
                    IN li.skuSrNo = old.skuSrNo
                       => /\ li.cells = old.cells
                          /\ li.looseInput = old.looseInput
                          /\ li.total = old.total
                          /\ li.balance =
                                FindStaging(new, li.skuSrNo).ttlCases - old.total]_vars

\* C11 -- matrix generation is idempotent: a run of the generation on the
\* sheet the run before returned (same staging rows, its loadingItems and
\* additionalItems as the existing ones) returns the same loadingItems and
\* additionalItems: same entries in the same order, the pool not re-created.
C11_GenerationIdempotent ==
    \A c \in Clients :
        (currentSheet[c] # NoSheet /\ now >= 3)
        => /\ activeSheet(c).stagingItems = currentSheet[c].stagingItems
           /\ activeSheet(c).loadingItems = currentSheet[c].loadingItems
           /\ activeSheet(c).additionalItems = currentSheet[c].additionalItems

\* The lock-time generation has run twice on a sheet with an entry that
\* holds a filled cell and a loose count.
C11_Witness ==
    /\ now >= 3
    /\ currentPage["c1"] = "staging-editor"
    /\ \E k \in 1..Len(activeSheet("c1").loadingItems) :
          /\ Len(activeSheet("c1").loadingItems[k].cells) > 0
          /\ activeSheet("c1").loadingItems[k].total = 3
          /\ activeSheet("c1").loadingItems[k].balance = 2
    /\ Len(activeSheet("c1").additionalItems) = PoolSize

\* C12 -- every sheet enters the table for the first time with status DRAFT
\* and a history of exactly one CREATED entry.
C12_FirstStoredAsDraft ==
    [][\A q \in db' :
          (\A r \in db : r.id # q.id)
          => (q.status = DRAFT /\ q.history = <<"CREATED">>)]_vars

\* C13 -- the step by which the stored status of a sheet becomes LOCKED puts
\* a STATUS_CHANGE_TO_LOCKED entry in front of its history and sets
\* lockedBy and lockedAt.
C13_LockRecorded ==
    [][\A q \in db' :
          (q.status = LOCKED /\ StoredIn(db, q.id).status # LOCKED)
          => /\ Len(q.history) > 0
             /\ Head(q.history) = "STATUS_CHANGE_TO_LOCKED"
             /\ q.lockedBy # ""
             /\ q.lockedAt # 0]_vars

\* C14 -- lockedBy and lockedAt of a stored sheet, once set, are never
\* changed by a later write to that sheet.
C14_LockedByImmutable ==
    [][\A r \in db : \A q \in db' :
          (q.id = r.id /\ r.lockedBy # "")
          => (q.lockedBy = r.lockedBy /\ q.lockedAt = r.lockedAt)]_vars

\* C15 -- complete (handleSubmit) on a sheet whose stored status is not
\* LOCKED at that moment changes nothing in the table.
C15_CompleteRequiresLocked ==
    [][\A c \in Clients :
          (handleSubmit(c) /\ StoredSheet(selectedSheetId[c]).status # LOCKED)
          => UNCHANGED db]_vars

\* C16 -- loading end time at completion: when Complete is pressed on a
\* sheet whose stored loadingEndTime is already set, the COMPLETED sheet
\* that is stored carries that same loadingEndTime; the clock is used only
\* when none was set.
C16_EndTimeKeptAtCompletion ==
    [][\A c \in Clients :
          (/\ handleSubmit(c)
           /\ StoredSheet(selectedSheetId[c]).loadingEndTime # "")
          => StoredIn(db', selectedSheetId[c]).loadingEndTime
                = StoredSheet(selectedSheetId[c]).loadingEndTime]_vars

\* C17 -- a completed sheet is read-only: once the stored status of a sheet
\* is COMPLETED, no step that leaves the sheet in the table changes its
\* status, stagingItems, loadingItems, additionalItems, completedBy,
\* completedAt or history (comments are left out: adding one is allowed),
\* also not the step that opens the sheet in the loading view.
C17_CompletedReadOnly ==
    [][\A r \in db : \A q \in db' :
          (q.id = r.id /\ r.status = COMPLETED)
          => /\ q.status = r.status
             /\ q.stagingItems = r.stagingItems
             /\ q.loadingItems = r.loadingItems
             /\ q.additionalItems = r.additionalItems
             /\ q.completedBy = r.completedBy
             /\ q.completedAt = r.completedAt
             /\ q.history = r.history]_vars

\* The sequence old is the tail of the sequence new.
IsSuffix(old, new) ==
    /\ Len(old) <= Len(new)
    /\ SubSeq(new, Len(new) - Len(old) + 1, Len(new)) = old

\* The updateSheet calls a save of the loading form makes: one for the
\* generation when the form has no loading items, one for the save.
UpdateSheetCalls(c) == IF Len(currentSheet[c].loadingItems) > 0 THEN 1 ELSE 2

\* C18 -- history is append-only, newest first: whatever a step writes, the
\* history stored before the step is the tail of the history stored after
\* it, and a Save Progress or Complete adds one entry for each updateSheet
\* call it makes, so that no call drops the entry of the call before it.
C18_HistoryAppendOnly ==
    [][\A r \in db : \A q \in db' :
          q.id = r.id
          => /\ IsSuffix(r.history, q.history)
             /\ \A c \in Clients :
                   (/\ handleSaveProgress(c) \/ handleSubmit(c)
                    /\ selectedSheetId[c] = r.id)
                   => Len(q.history) = Len(r.history) + UpdateSheetCalls(c)]_vars

\* C19 -- comments are append-only, newest first: whatever a step writes
\* (addComment, Save Progress, Complete), the comments stored on the sheet
\* before the step are the tail of the comments stored after it, so every
\* comment once stored stays, in the same order, behind the newer ones.
C19_CommentsAppendOnly ==
    [][\A r \in db : \A q \in db' :
          q.id = r.id => IsSuffix(r.comments, q.comments)]_vars

\* C20 -- delete requires a reason: a delete request answered with an empty
\* reason leaves the table and the audit log as they were, and every step
\* that removes a sheet from the table is a delete for which the
\* administrator supplied a non-empty reason, puts exactly one SHEET_DELETE
\* entry carrying that reason in front of the audit log, and leaves the
\* histories of the sheets in the session's list as they were.
C20_DeleteRequiresReason ==
    [][\A c \in Clients : \A id \in CreateTimes :
          /\ handleDelete(c, id, "") => UNCHANGED <<db, sheets, auditLogs>>
          /\ (/\ StoredSheet(id) # NoSheet
              /\ StoredIn(db', id) = NoSheet
              /\ sheets'[c] # sheets[c])
             => \E answer \in PromptAnswers \ {""} :
                   /\ auditLogs'[c] =
                         <<[action |-> "SHEET_DELETE", sheet |-> id,
                            reason |-> answer]>> \o auditLogs[c]
                   /\ \A i \in 1..Len(sheets'[c]) :
                         \E j \in 1..Len(sheets[c]) :
                            sheets'[c][i] = sheets[c][j]]_vars

\* The slot of a cell lies within the fullPlt of the staging item of its
\* entry: row * 10 + col < fullPlt.
SlotWithinFullPlt(sheet, li, row, col) ==
    /\ hasStaging(sheet, li.skuSrNo)
    /\ row * Cols + col < FindStaging(sheet, li.skuSrNo).fullPlt

\* Every cell of the loading entries items lies within fullPlt, and the
\* total of every entry is the sum of those cells plus looseInput.
SlotsWithinFullPlt(sheet, items) ==
    \A k \in 1..Len(items) :
        LET li == items[k]
            counted == SelectSeq(li.cells, LAMBDA cell :
                          SlotWithinFullPlt(sheet, li, cell.row, cell.col))
        IN /\ counted = li.cells
           /\ li.total = SumSeq(cellValues(counted)) + li.looseInput

\* The slots of every stored copy and of every open loading form.
AllSlotsWithinFullPlt ==
    /\ \A sh \in StoredCopies : SlotsWithinFullPlt(sh, sh.loadingItems)
    /\ \A c \in Clients :
          currentPage[c] = "loading-editor"
          => SlotsWithinFullPlt(activeSheet(c), currentSheet[c].loadingItems)

\* C21 -- slots beyond fullPlt: in every reachable state, no loading entry
\* (stored, or in a loading form under edit) holds a cell with
\* row * 10 + col >= fullPlt of its staging item, every total is the sum of
\* the cells within fullPlt plus looseInput, and the grid input a cell edit
\* is addressed to is never a slot beyond fullPlt, so that no such edit
\* changes cells or total.
C21_NoSlotBeyondFullPlt ==
    /\ AllSlotsWithinFullPlt
    /\ \A c \in Clients :
          entered[c] # NoEntry
          => /\ hasStaging(activeSheet(c), entered[c].skuSrNo)
             /\ entered[c].row * Cols + entered[c].col
                   < FindStaging(activeSheet(c), entered[c].skuSrNo).fullPlt

\* A stored sheet whose SKU has fullPlt = 1 holds a cell in slot (0, 0),
\* the last slot of the SKU, while its grid row has more slots.
C21_Witness ==
    \E sh \in db : \E k \in 1..Len(sh.loadingItems) :
        /\ FindStaging(sh, sh.loadingItems[k].skuSrNo).fullPlt = 1
        /\ CellValue(sh.loadingItems[k], 0, 0) > 0
        /\ sh.loadingItems[k].total > 0

\* C22 -- persistence failures are reported: a save, lock or complete whose
\* write does not reach the table does not end in its success outcome (the
\* staging form does not go on to onLock / onCancel, the loading form shows
\* neither 'Progress Saved' nor 'Sheet Completed'), and the session's list
\* is left as it was, not showing a sheet the table never took.
C22_FailedWriteReported ==
    [][\A c \in Clients :
          /\ \A lock \in BOOLEAN :
                SaveFails(c, lock)
                => /\ currentPage'[c] = "staging-editor"
                   /\ sheets'[c] = sheets[c]
          /\ (SaveProgressFails(c) \/ SubmitFails(c))
             => /\ outcome'[c].kind \notin {"Progress Saved Successfully!",
                                           "Sheet Completed Successfully!"}
                /\ sheets'[c] = sheets[c]]_vars

\* Session c submits a save, lock, complete or addComment for the sheet id.
SubmitsFor(c, id) ==
    \/ /\ selectedSheetId[c] = id
       /\ \/ \E lock \in BOOLEAN : handleSave(c, lock)
          \/ handleSaveProgress(c)
          \/ handleSubmit(c)
    \/ \E text \in CommentTexts : CallAddComment(c, id, text)

\* C23 -- not found after delete: when a save, lock, complete or addComment
\* is submitted for a sheet id that is in the session's list but was
\* deleted from the table in the meantime, the sheet is not stored in the
\* table again and the operation does not end in its success outcome (the
\* staging form stays open, the loading form shows no success message).
C23_DeletedSheetNotFound ==
    [][\A c \in Clients : \A id \in CreateTimes :
          (/\ FindSheet(sheets[c], id) # NoSheet
           /\ StoredSheet(id) = NoSheet
           /\ SubmitsFor(c, id))
          => /\ StoredIn(db', id) = NoSheet
             /\ currentPage'[c] = currentPage[c]
             /\ outcome'[c].kind \notin {"Progress Saved Successfully!",
                                        "Sheet Completed Successfully!"}]_vars

\* Session c stores a new sheet: handleSave on a form without existingSheet
\* that passes validation.
Creates(c) ==
    /\ selectedSheetId[c] = 0
    /\ Len(sheets'[c]) = Len(sheets[c]) + 1
    /\ \E lock \in BOOLEAN, elapsed \in SameMillisecond :
          handleSaveWith(c, lock, TRUE, elapsed)

\* C24 -- ids are unique: every creation adds a sheet under an id no sheet
\* of the collection has, also when two creations read the same
\* millisecond: the table gains a row, and no two sheets of the creating
\* session's list have the same id.
C24_IdsUnique ==
    [][\A c \in Clients :
          Creates(c)
          => /\ Cardinality(db') = Cardinality(db) + 1
             /\ \A i, j \in 1..Len(sheets'[c]) :
                   sheets'[c][i].id = sheets'[c][j].id => i = j]_vars

C26_StagingItemsFixed ==
    [][\A id \in CreateTimes :
          (/\ StoredSheet(id).status = LOCKED
           /\ StoredIn(db', id) # NoSheet)
          => StoredIn(db', id).stagingItems = StoredSheet(id).stagingItems]_vars

\* C27 -- in every stored sheet: a DRAFT sheet has no loadingItems, no two
\* loading items share a skuSrNo, and the skuSrNo of every loading item is
\* the srNo of exactly one staging item, which has a SKU name and
\* ttlCases > 0.
MatchingStaging(sheet, skuSrNo) ==
    { i \in 1..Len(sheet.stagingItems) : sheet.stagingItems[i].srNo = skuSrNo }

LoadingItemsWellFormed(sheet) ==
    /\ sheet.status = DRAFT => sheet.loadingItems = <<>>
    /\ \A i, j \in 1..Len(sheet.stagingItems) :
           sheet.stagingItems[i].srNo = sheet.stagingItems[j].srNo => i = j
    /\ \A j, k \in 1..Len(sheet.loadingItems) :
           sheet.loadingItems[j].skuSrNo = sheet.loadingItems[k].skuSrNo
           => j = k
    /\ \A k \in 1..Len(sheet.loadingItems) :
           LET match == MatchingStaging(sheet, sheet.loadingItems[k].skuSrNo)
           IN /\ Cardinality(match) = 1
              /\ \A i \in match :
                     /\ sheet.stagingItems[i].skuName # ""
                     /\ sheet.stagingItems[i].ttlCases > 0

C27_LoadingItemsWellFormed == \A sh \in db : LoadingItemsWellFormed(sh)

\* Session c2 added a row and locked after session c1: the stored sheet
\* has two loading items and a staging row without one.
C27_Witness ==
    \E sh \in db :
        /\ sh.status = LOCKED
        /\ sh.lockedBy = "c2"
        /\ Len(sh.loadingItems) = 2
        /\ Len(sh.stagingItems) > TargetRows

\* C28 -- after any sequence of cell edits, clearings and rejected commits,
\* every loading item, in the loading form and in the table, holds at most
\* one cell per (row, col), and its total is the sum of its cell values
\* plus its looseInput.
OneCellPerSlot(li) ==
    /\ \A i, j \in 1..Len(li.cells) :
           (li.cells[i].row = li.cells[j].row /\ li.cells[i].col = li.cells[j].col)
           => i = j
    /\ li.total = SumSeq(cellValues(li.cells)) + li.looseInput

C28_OneCellPerSlot ==
    /\ \A sh \in db : \A k \in 1..Len(sh.loadingItems) :
           OneCellPerSlot(sh.loadingItems[k])
    /\ \A c \in Clients :
           currentPage[c] = "loading-editor"
           => \A k \in 1..Len(currentSheet[c].loadingItems) :
                  OneCellPerSlot(currentSheet[c].loadingItems[k])

\* A stored loading item with a cell that was entered and cleared again
\* (value 0), a second cell that holds a value, and a loose quantity.
C28_Witness ==
    \E sh \in db : \E k \in 1..Len(sh.loadingItems) :
        LET li == sh.loadingItems[k]
        IN /\ Len(li.cells) = 2
           /\ \E i \in 1..2 : li.cells[i].value = 0
           /\ \E i \in 1..2 : li.cells[i].value > 0
           /\ li.looseInput > 0

\* C29 -- every loading cell value, every looseInput and every additional
\* item count, in the loading form and in the table, is a non-negative
\* integer: a negative entry is not stored.
NonNegativeEntries(sheet) ==
    /\ \A k \in 1..Len(sheet.loadingItems) :
           /\ sheet.loadingItems[k].looseInput >= 0
           /\ \A i \in 1..Len(sheet.loadingItems[k].cells) :
                  sheet.loadingItems[k].cells[i].value >= 0
    /\ \A k \in 1..Len(sheet.additionalItems) :
           \A i \in 1..Len(sheet.additionalItems[k].counts) :
               sheet.additionalItems[k].counts[i] >= 0

C29_NonNegativeEntries ==
    /\ \A sh \in db : NonNegativeEntries(sh)
    /\ \A c \in Clients :
           currentPage[c] = "loading-editor" => NonNegativeEntries(currentSheet[c])

\* C30 -- a draft save of an existing sheet puts an UPDATED entry on top of
\* the stored history, never a STATUS_CHANGE_TO_ entry, and the status it
\* sends to updateSheet is the status stored for the sheet before the save,
\* also when the form was opened before another write to the sheet.
DraftSaveOfExisting(c, id) ==
    /\ selectedSheetId[c] = id
    /\ FindSheet(sheets[c], id) # NoSheet
    /\ handleSave(c, FALSE)
    /\ currentPage'[c] = "list"

C30_DraftSaveLabelledUpdated ==
    [][\A c \in Clients, id \in CreateTimes :
          DraftSaveOfExisting(c, id)
          => /\ Head(StoredIn(db', id).history) = "UPDATED"
             /\ StoredIn(db', id).status = StoredSheet(id).status]_vars

=============================================================================
